---- MODULE Spec2Model ----
(***************************************************************************)
(* A model of the data viewer's server side (DataViewer.cpp): the registry *)
(* of cached frames (s_cachedFrames), the grid-data request handler        *)
(* (getGridData / getData), removeCachedData, duplicateDataView, the       *)
(* change scan (onDetectChanges) and the filter comparator                 *)
(* (isFilterSubset).  The R side (the data engine: .rs.findDataFrame,      *)
(* .rs.applyTransform, the working-data and cached-data environments) is   *)
(* an external collaborator, modelled at its interface.                    *)
(*                                                                         *)
(* A string the comparator inspects (a search or a filter) is a sequence   *)
(* of one-character strings, so that prefixes and the numeric-range        *)
(* pattern are computed, not assumed.                                      *)
(***************************************************************************)
EXTENDS Integers, Sequences, FiniteSets, TLC

\* ------------------------------------------------------------------------
\* Strings, and isFilterSubset
\* ------------------------------------------------------------------------

Digits == {"0", "1", "2", "3", "4", "5", "6", "7", "8", "9"}

DigitVal(c) ==
  CASE c = "0" -> 0 [] c = "1" -> 1 [] c = "2" -> 2 [] c = "3" -> 3
    [] c = "4" -> 4 [] c = "5" -> 5 [] c = "6" -> 6 [] c = "7" -> 7
    [] c = "8" -> 8 [] c = "9" -> 9

\* what a failed regex_search leaves behind
NoMatch == <<>>

\* the first index at or after i that holds no digit (\d* from i, greedy)
RECURSIVE DigitsEnd(_, _)
DigitsEnd(s, i) ==
  IF i <= Len(s) /\ s[i] \in Digits THEN DigitsEnd(s, i + 1) ELSE i

\* the index after a greedy match of \d+\.?\d* that starts at i; 0 when
\* there is no digit at i
NumberEnd(s, i) ==
  LET a == DigitsEnd(s, i)
      b == IF a <= Len(s) /\ s[a] = "." THEN a + 1 ELSE a
  IN  IF a = i THEN 0 ELSE DigitsEnd(s, b)

\* the pattern (\d+\.?\d*)-(\d+\.?\d*) anchored at i: the two captures, or
\* NoMatch.  The first group is followed by a literal "-", which no shorter
\* choice of the greedy groups can supply, so greedy is the only match.
MatchAt(s, i) ==
  LET e1 == NumberEnd(s, i)
  IN  IF e1 = 0 \/ e1 > Len(s) THEN NoMatch
      ELSE IF s[e1] # "-" THEN NoMatch
      ELSE LET e2 == NumberEnd(s, e1 + 1)
           IN  IF e2 = 0 THEN NoMatch
               ELSE <<SubSeq(s, i, e1 - 1), SubSeq(s, e1 + 1, e2 - 1)>>

\* boost::regex_search: the match at the leftmost position that has one
RECURSIVE SearchFrom(_, _)
SearchFrom(s, i) ==
  IF i > Len(s) THEN NoMatch
  ELSE IF MatchAt(s, i) # NoMatch THEN MatchAt(s, i)
  ELSE SearchFrom(s, i + 1)

regex_search(s) == SearchFrom(s, 1)

\* the value of a run of digits
RECURSIVE DigitsValue(_)
DigitsValue(d) ==
  IF d = <<>> THEN 0
  ELSE 10 * DigitsValue(SubSeq(d, 1, Len(d) - 1)) + DigitVal(d[Len(d)])

\* safe_convert::stringTo<double> of a capture digits[.digits], in
\* hundredths (two fractional digits are kept)
stringTo(m) ==
  LET a    == DigitsEnd(m, 1)
      int  == SubSeq(m, 1, a - 1)
      frac == IF a <= Len(m) THEN SubSeq(m, a + 1, Len(m)) ELSE <<>>
      f2   == IF Len(frac) = 0 THEN 0
              ELSE IF Len(frac) = 1 THEN 10 * DigitVal(frac[1])
              ELSE 10 * DigitVal(frac[1]) + DigitVal(frac[2])
  IN  100 * DigitsValue(int) + f2

isFilterSubset(outer, inner) ==
  IF inner = outer THEN TRUE
  ELSE LET innerMatch == regex_search(inner)
           outerMatch == regex_search(outer)
       IN  IF innerMatch # NoMatch /\ outerMatch # NoMatch
           THEN /\ stringTo(innerMatch[1]) >= stringTo(outerMatch[1])
                /\ stringTo(innerMatch[2]) <= stringTo(outerMatch[2])
           ELSE IF Len(inner) < Len(outer) THEN FALSE
           ELSE SubSeq(inner, 1, Len(outer)) = outer

\* ------------------------------------------------------------------------
\* The R session: objects, and the engine's functions
\* ------------------------------------------------------------------------

\* a null SEXP / an absent value
NULL == "NULL"

kNoBoundEnv == "_rs_no_env"

sApp   == <<"a", "p", "p">>
sApple == <<"a", "p", "p", "l", "e">>
sApt   == <<"a", "p", "t">>
sBob   == <<"b", "o", "b">>
sEmpty == <<>>

\* The objects the session can bind to the viewed name.  df1 and df2 are
\* data frames with the same columns and different content, df3 has one
\* more column, mat is a matrix (ncol 2, names() NULL).
Objs == {"df1", "df2", "df3", "mat"}

\* names(o): a matrix has none (R returns NULL, and nothing is extracted)
RNames(o) ==
  CASE o = "df1" -> <<"a", "b">>
    [] o = "df2" -> <<"a", "b">>
    [] o = "df3" -> <<"a", "b", "c">>
    [] o = "mat" -> <<>>

RNcol(o) == IF o = "df3" THEN 3 ELSE 2

\* the rows of an object, each a sequence of cells
RRows(o) ==
  CASE o = "df1" -> << <<sApple, <<"3">>>>, <<sApp, <<"5">>>>, <<sBob, <<"7">>>> >>
    [] o = "df2" -> << <<sApple, <<"1">>>>, <<sApt, <<"2">>>>, <<sApp, <<"4">>>>,
                       <<sBob, <<"6">>>>, <<sApple, <<"8">>>> >>
    [] o = "df3" -> << <<sApp, <<"2">>, sBob>>, <<sBob, <<"9">>, sApple>> >>
    [] o = "mat" -> << <<<<"1">>, <<"2">>>>, <<<<"3">>, <<"4">>>> >>

\* a data frame value held by R: the object it was taken from and the rows
\* of it that are left, in order
DataOf(o) == [obj |-> o, rows |-> [i \in 1..Len(RRows(o)) |-> i]]

\* R's NULL where a data frame is expected
NullData == [obj |-> NULL, rows |-> <<>>]

nrow(d) == Len(d.rows)
ncol(d) == RNcol(d.obj)

IsPrefix(p, s) == Len(p) <= Len(s) /\ SubSeq(s, 1, Len(p)) = p

IsNumber(s) == s # <<>> /\ DigitsEnd(s, 1) = Len(s) + 1

\* does a cell pass a column filter: a numeric range selects the numbers in
\* it, any other filter the cells that start with it
CellMatches(f, cell) ==
  LET m == regex_search(f)
  IN  IF m # NoMatch /\ IsNumber(cell)
      THEN stringTo(m[1]) <= stringTo(cell) /\ stringTo(cell) <= stringTo(m[2])
      ELSE IsPrefix(f, cell)

RowMatches(o, r, filters, search) ==
  LET row == RRows(o)[r]
  IN  /\ \A c \in 1..Len(filters) :
           filters[c] = sEmpty \/ (c <= Len(row) /\ CellMatches(filters[c], row[c]))
      /\ search = sEmpty \/ \E c \in 1..Len(row) : IsPrefix(search, row[c])

Alphabet == <<"0", "1", "2", "3", "4", "5", "6", "7", "8", "9",
              "a", "b", "e", "l", "o", "p", "t">>

Rank(c) == CHOOSE i \in 1..Len(Alphabet) : Alphabet[i] = c

RECURSIVE StrLess(_, _)
StrLess(s, t) ==
  IF t = <<>> THEN FALSE
  ELSE IF s = <<>> THEN TRUE
  ELSE IF Rank(s[1]) # Rank(t[1]) THEN Rank(s[1]) < Rank(t[1])
  ELSE StrLess(Tail(s), Tail(t))

\* insert row r into the sorted sequence rs, after the rows that do not
\* come after it (a stable sort)
RECURSIVE InsertRow(_, _, _, _, _)
InsertRow(o, rs, r, col, dir) ==
  LET key(x) == RRows(o)[x][col]
      after(x, y) == IF dir = "desc" THEN StrLess(key(x), key(y))
                     ELSE StrLess(key(y), key(x))
  IN  IF rs = <<>> THEN <<r>>
      ELSE IF after(Head(rs), r) THEN <<r>> \o rs
      ELSE <<Head(rs)>> \o InsertRow(o, Tail(rs), r, col, dir)

RECURSIVE SortRows(_, _, _, _)
SortRows(o, rs, col, dir) ==
  IF rs = <<>> THEN <<>>
  ELSE InsertRow(o, SortRows(o, SubSeq(rs, 1, Len(rs) - 1), col, dir),
                 rs[Len(rs)], col, dir)

\* .rs.applyTransform(x, filtered, search, col, dir): the rows of x that
\* pass every filter and the search, ordered on column col when there is
\* one.  A failure of the engine leaves the caller with a null result.
applyTransform(x, filters, search, col, dir, outcome) ==
  LET keep(r) == RowMatches(x.obj, r, filters, search)
      kept    == SelectSeq(x.rows, keep)
  IN  IF outcome = "fail" THEN NullData
      ELSE [obj  |-> x.obj,
            rows |-> IF col > 0 /\ col <= RNcol(x.obj)
                     THEN SortRows(x.obj, kept, col, dir) ELSE kept]


\* ------------------------------------------------------------------------
\* State
\* ------------------------------------------------------------------------

\* the cache keys of the model
Keys == {"K1", "K2"}

\* the keys in map order
KeySeq == <<"K1", "K2">>

\* the one object name the views are about
ObjName == "df"

\* the environment names a request can carry: the global one and the
\* marker of a view that has no environment
Envs == {"R_GlobalEnv", kNoBoundEnv}

\* the values an int member can hold that no constructor initializes
Indeterminate == {0, 2}

VARIABLES
  R_GlobalEnv,     \* what ObjName is bound to in the global environment
  s_cachedFrames,  \* the registry: cache key -> CachedFrame
  workingData,     \* R: the working (ordered/filtered) copy kept per key
  cachedData,      \* R: the cached copy of the viewed data per key
  lastQuery,       \* per key: the query of the page request before, when
                   \* it transformed and nothing invalidated the key since
  last,            \* the operation handled last: its inputs, its response
                   \* and the engine calls it made
  inFlight         \* the handlers that are inside an engine call: a page
                   \* request inside .rs.applyTransform, a scan inside the
                   \* calls it makes for an entry

vars == <<R_GlobalEnv, s_cachedFrames, workingData, cachedData, lastQuery, last,
          inFlight>>

\* ------------------------------------------------------------------------
\* CachedFrame
\* ------------------------------------------------------------------------

\* CachedFrame(env, obj, sexp).  ncol is assigned only for a non-null sexp
\* and workingOrderCol by no constructor: garbageNcol and garbageOrderCol
\* are what those members hold then.
CachedFrame(env, obj, sexp, garbageNcol, garbageOrderCol) ==
  [envName         |-> env,
   objName         |-> obj,
   observedSEXP    |-> sexp,
   colNames        |-> IF sexp = NULL THEN <<>> ELSE RNames(sexp),
   ncol            |-> IF sexp = NULL THEN garbageNcol ELSE RNcol(sexp),
   workingSearch   |-> sEmpty,
   workingFilters  |-> <<>>,
   workingOrderCol |-> garbageOrderCol,
   workingOrderDir |-> ""]

Min(a, b) == IF a < b THEN a ELSE b
Max(a, b) == IF a > b THEN a ELSE b

\* a slip: every requested filter must have a recorded counterpart
isSupersetOf_EveryNewFilter(frame, newSearch, newFilters) ==
  /\ isFilterSubset(frame.workingSearch, newSearch)
  /\ \A i \in 1..Len(newFilters) :
       /\ i <= Len(frame.workingFilters)
       /\ isFilterSubset(frame.workingFilters[i], newFilters[i])

isSupersetOf(frame, newSearch, newFilters) ==
  /\ isFilterSubset(frame.workingSearch, newSearch)
  /\ \A i \in 1..Min(Len(newFilters), Len(frame.workingFilters)) :
       isFilterSubset(frame.workingFilters[i], newFilters[i])

findInNamedEnvir(envir, name) ==
  IF envir = kNoBoundEnv THEN NULL ELSE R_GlobalEnv

\* .rs.findDataFrame(env, obj, cacheKey, cacheDir): the live object as a
\* data frame, else the cached copy, else NULL
findDataFrame(envName, objName, cacheKey) ==
  IF findInNamedEnvir(envName, objName) # NULL
  THEN DataOf(findInNamedEnvir(envName, objName))
  ELSE IF cachedData[cacheKey] # NULL THEN DataOf(cachedData[cacheKey])
  ELSE NullData

\* .rs.findWorkingData(cacheKey), .rs.saveWorkingData(cacheKey, data),
\* .rs.removeWorkingData(cacheKey): the working copy R keeps per key
findWorkingData(working, cacheKey) == working[cacheKey]
saveWorkingData(working, cacheKey, dataSEXP) ==
  [working EXCEPT ![cacheKey] = dataSEXP]
removeWorkingData(working, cacheKey) ==
  [working EXCEPT ![cacheKey] = NullData]

\* ------------------------------------------------------------------------
\* Requests
\* ------------------------------------------------------------------------

Query(search, filters, ordercol, orderdir) ==
  [search |-> search, filters |-> filters, ordercol |-> ordercol,
   orderdir |-> orderdir]

\* a request that asks for no search, filter or order (the defaults of
\* getData's fieldValue calls)
qNone == Query(sEmpty, <<>>, -1, "asc")
\* search "app"
qApp == Query(sApp, <<>>, -1, "asc")
\* search "app" and the filter "apple" on column 1
qAppApple == Query(sApp, <<sApple>>, -1, "asc")
\* search "apple": narrower than "app"
qApple == Query(sApple, <<>>, -1, "asc")
\* order on column 1, descending
qOrder == Query(sEmpty, <<>>, 1, "desc")
\* the numeric filter "2-7" on column 2, ascending order on column 2
qRange == Query(sEmpty, <<sEmpty, <<"2", "-", "7">>>>, 2, "asc")

\* the filter "2" on column 2, and the filter "2-9" on column 2
qTwo == Query(sEmpty, <<sEmpty, <<"2">>>>, -1, "asc")
qTwoNine == Query(sEmpty, <<sEmpty, <<"2", "-", "9">>>>, -1, "asc")

Queries == {qNone, qApp, qAppApple, qApple, qOrder}

\* fieldValue(fields, "columns[i][search][value]", "")
FilterField(q, i) == IF i <= Len(q.filters) THEN q.filters[i] ELSE sEmpty

NoQuery == [search |-> sEmpty, filters |-> <<>>, ordercol |-> -1, orderdir |-> "none"]


\* the largest start and length a request asks for, and the largest draw
MaxStart == 4
MaxLength == 10
MaxDraw == 2

Pages == [start : {0, MaxStart}, length : {2, MaxLength}]

Draws == 1..MaxDraw

NoPage == [start |-> 0, length |-> 0]

NoResponse == [draw |-> 0, recordsTotal |-> 0, recordsFiltered |-> 0, data |-> <<>>]

\* what `last` holds when nothing of the kind happened
Idle ==
  [op             |-> "init",
   key            |-> "",
   env            |-> "",
   query          |-> NoQuery,
   page           |-> NoPage,
   draw           |-> 0,
   status         |-> 0,
   error          |-> "",
   response       |-> NoResponse,
   transformCalls |-> 0,        \* calls of .rs.applyTransform
   transformInput |-> "none",   \* what the call was given: "raw", "working"
   engine         |-> "none",   \* how the call ended: "ok", "fail"
   repeat         |-> FALSE,    \* the request repeats the query of lastQuery
   hasTransform   |-> FALSE,    \* the working copy was served as it is
   formatCalls    |-> 0,        \* calls of .rs.formatDataColumn
   formatStart    |-> 0,        \* the start and length they were given
   formatLength   |-> 0,
   events         |-> <<>>,     \* the client events enqueued
   newKey         |-> ""]

\* no page request is inside .rs.applyTransform
NoCall == [key |-> ""]

\* no handler is inside an engine call.  transform: the page request that
\* is inside .rs.applyTransform; scanning: onDetectChanges is running
\* (s_inFunction of DROP_RECURSIVE_CALLS); pending: the keys its loop has
\* not visited yet; events: the events it has enqueued; bodies: the
\* activations of its loop
Quiet ==
  [transform |-> NoCall, scanning |-> FALSE, pending |-> <<>>, events |-> <<>>,
   bodies |-> 0]

\* ------------------------------------------------------------------------
\* getData
\* ------------------------------------------------------------------------

\* the filters vector getData builds: one entry per column of the data
RequestFilters(q, dataSEXP) == [i \in 1..ncol(dataSEXP) |-> FilterField(q, i)]

\* a slip: every request is taken to need a transform
NeedsTransform_Always(q, dataSEXP) == TRUE

NeedsTransform(q, dataSEXP) ==
  \/ q.ordercol > 0
  \/ \E i \in 1..ncol(dataSEXP) : FilterField(q, i) # sEmpty
  \/ q.search # sEmpty

\* a slip: the filters are left out of the comparison
SameParameters_IgnoreFilters(frame, q, filters) ==
  /\ frame.workingSearch = q.search
  /\ frame.workingOrderDir = q.orderdir
  /\ frame.workingOrderCol = q.ordercol

\* the working copy is used exactly as it is
SameParameters(frame, q, filters) ==
  /\ frame.workingSearch = q.search
  /\ frame.workingFilters = filters
  /\ frame.workingOrderDir = q.orderdir
  /\ frame.workingOrderCol = q.ordercol

\* a slip: the null result goes unnoticed
IsNullResult_Never(dataSEXP) == FALSE

\* "we've accidentally transformed ourselves into nothing"
IsNullResult(dataSEXP) == dataSEXP = NullData

\* a slip: the row count of the untransformed data is reported
FilteredNRow_Raw(needsTransform, hasTransform, dataSEXP, nrow0) == nrow0

\* "apply new row count"
FilteredNRow(needsTransform, hasTransform, dataSEXP, nrow0) ==
  IF needsTransform \/ hasTransform THEN nrow(dataSEXP) ELSE nrow0

\* "return the lesser of the rows available and rows requested"
PageLength(length, filteredNRow, start) == Min(length, filteredNRow - start)

\* .rs.formatRowNames(x, start, length) / .rs.formatDataColumn: the labels
\* of the rows start .. start+length-1 of x, as far as the grid reads them
FormatRows(x, start, length) ==
  [i \in 1..Max(0, length) |->
     IF start + i - 1 >= 1 /\ start + i - 1 <= Len(x.rows)
     THEN x.rows[start + i - 1] ELSE 0]

\* a slip: the working copy is never looked at
WorkingCopy_FromScratch(frames, working, cacheKey, q, filters, needs0) == "none"

\* "check to see if we have an ordered/filtered view we can build from":
\* "exact" when the working copy of the key has exactly the requested
\* parameters, "superset" when it is a superset of them, "none" otherwise
WorkingCopy(frames, working, cacheKey, q, filters, needs0) ==
  IF \/ ~needs0
     \/ cacheKey \notin DOMAIN frames
     \/ findWorkingData(working, cacheKey) = NullData
  THEN "none"
  ELSE IF SameParameters(frames[cacheKey], q, filters) THEN "exact"
  ELSE IF isSupersetOf(frames[cacheKey], q.search, filters) THEN "superset"
  ELSE "none"

\* getData from the null check of the transform result on: the working
\* state is saved, the rows are counted and the page is formatted
getDataPage(frames, working, cacheKey, q, page, draw, outcome, filters, nrow0, ncol0, copy, needsTransform, result) ==
  LET failed       == needsTransform /\ IsNullResult(result)
      saved        == needsTransform /\ ~IsNullResult(result)
      filteredNRow == FilteredNRow(needsTransform, copy = "exact", result, nrow0)
      trace        == [Idle EXCEPT
                         !.transformCalls = IF needsTransform THEN 1 ELSE 0,
                         !.transformInput = IF ~needsTransform THEN "none"
                                            ELSE IF copy = "superset"
                                            THEN "working" ELSE "raw",
                         !.engine = IF needsTransform THEN outcome ELSE "none",
                         !.hasTransform = (copy = "exact")]
  IN  IF failed
      THEN [frames |-> frames, working |-> working,
            answer |-> [trace EXCEPT !.status = 500,
                                     !.error = "Failure to sort or filter data"]]
      ELSE [frames  |-> IF saved /\ cacheKey \in DOMAIN frames
                        THEN [frames EXCEPT ![cacheKey] =
                                [@ EXCEPT !.workingSearch   = q.search,
                                          !.workingFilters  = filters,
                                          !.workingOrderDir = q.orderdir,
                                          !.workingOrderCol = q.ordercol]]
                        ELSE frames,
            working |-> IF saved THEN saveWorkingData(working, cacheKey, result)
                        ELSE working,
            answer  |-> IF ncol(result) < ncol0
                        THEN [trace EXCEPT !.status = 500,
                                           !.error = "No data in column"]
                        ELSE [trace EXCEPT
                                !.status = 200,
                                !.formatCalls = ncol0,
                                !.formatStart = page.start + 1,
                                !.formatLength =
                                   PageLength(page.length, filteredNRow, page.start),
                                !.response =
                                   [draw            |-> draw,
                                    recordsTotal    |-> nrow0,
                                    recordsFiltered |-> filteredNRow,
                                    data |-> FormatRows(result, page.start + 1,
                                               PageLength(page.length, filteredNRow,
                                                          page.start))]]]

\* getData from the choice of the working copy on: "apply transformations
\* if needed"
getDataTransform(frames, working, dataSEXP, cacheKey, q, page, draw, outcome, filters, copy, needs0) ==
  getDataPage(frames, working, cacheKey, q, page, draw, outcome, filters,
              nrow(dataSEXP), ncol(dataSEXP), copy, needs0 /\ copy # "exact",
              IF needs0 /\ copy # "exact"
              THEN applyTransform(IF copy = "superset"
                                  THEN findWorkingData(working, cacheKey)
                                  ELSE dataSEXP,
                                  filters, q.search, q.ordercol, q.orderdir, outcome)
              ELSE IF copy = "exact" THEN findWorkingData(working, cacheKey)
              ELSE dataSEXP)

\* getData(dataSEXP, fields) on the registry `frames` and the working
\* copies `working`: the registry and the working copies it leaves, and
\* what it answers.  An RErrorException is the answer of status 500.
getData(frames, working, dataSEXP, cacheKey, q, page, draw, outcome) ==
  getDataTransform(frames, working, dataSEXP, cacheKey, q, page, draw, outcome,
                   RequestFilters(q, dataSEXP),
                   WorkingCopy(frames, working, cacheKey, q,
                               RequestFilters(q, dataSEXP),
                               NeedsTransform(q, dataSEXP)),
                   NeedsTransform(q, dataSEXP))

\* ------------------------------------------------------------------------
\* The handlers
\* ------------------------------------------------------------------------

\* a slip: the whole registry is cleared
Erase_All(frames, k) == <<>>

\* std::map::erase / operator[]=
Erase(frames, k) == [x \in DOMAIN frames \ {k} |-> frames[x]]
Put(frames, k, f) == [x \in DOMAIN frames \cup {k} |-> IF x = k THEN f ELSE frames[x]]

\* "begin observing if we aren't already": the registry getGridData hands
\* to getData
Observe(frames, envName, objName, cacheKey, garbageNcol, garbageOrderCol) ==
  IF envName # kNoBoundEnv /\ cacheKey \notin DOMAIN frames
  THEN Put(frames, cacheKey,
           CachedFrame(envName, objName, findInNamedEnvir(envName, objName),
                       garbageNcol, garbageOrderCol))
  ELSE frames

\* getGridData for show=data: a page request.  When the data is not found
\* the code NotFound is assigned to the local statusCode; the response is
\* sent with `status`, which only the RErrorException handler assigns.
getGridData(cacheKey, envName, q, page, draw, outcome, garbageNcol, garbageOrderCol) ==
  LET frames1  == Observe(s_cachedFrames, envName, ObjName, cacheKey,
                          garbageNcol, garbageOrderCol)
      dataSEXP == findDataFrame(envName, ObjName, cacheKey)
      request  == [Idle EXCEPT !.op = "getGridData", !.key = cacheKey,
                               !.env = envName, !.query = q, !.page = page,
                               !.draw = draw,
                               !.repeat = (lastQuery[cacheKey] = q)]
  IN  IF dataSEXP = NullData
      THEN /\ s_cachedFrames' = frames1
           /\ last' = [request EXCEPT !.status = 200,
                                      !.error = "The object no longer exists."]
           /\ lastQuery' = [lastQuery EXCEPT ![cacheKey] = NoQuery]
           /\ UNCHANGED <<R_GlobalEnv, workingData, cachedData>>
      ELSE \E r \in {getData(frames1, workingData, dataSEXP, cacheKey, q, page,
                              draw, outcome)} :
           LET a == r.answer
           IN  /\ s_cachedFrames' = r.frames
               /\ workingData' = r.working
               /\ last' = [request EXCEPT
                             !.status = a.status, !.error = a.error,
                             !.response = a.response,
                             !.transformCalls = a.transformCalls,
                             !.transformInput = a.transformInput,
                             !.engine = a.engine,
                             !.hasTransform = a.hasTransform,
                             !.formatCalls = a.formatCalls,
                             !.formatStart = a.formatStart,
                             !.formatLength = a.formatLength]
               /\ lastQuery' = [lastQuery EXCEPT ![cacheKey] =
                                  IF a.status = 200 /\ NeedsTransform(q, dataSEXP)
                                  THEN q ELSE NoQuery]
               /\ UNCHANGED <<R_GlobalEnv, cachedData>>

\* removeCachedData(cacheKey); .rs.removeCachedData drops the cached copy,
\* its backing file and the working copy of the key
removeCachedData(cacheKey) ==
  /\ s_cachedFrames' = IF cacheKey \in DOMAIN s_cachedFrames
                       THEN Erase(s_cachedFrames, cacheKey) ELSE s_cachedFrames
  /\ cachedData' = [cachedData EXCEPT ![cacheKey] = NULL]
  /\ workingData' = removeWorkingData(workingData, cacheKey)
  /\ lastQuery' = [lastQuery EXCEPT ![cacheKey] = NoQuery]
  /\ last' = [Idle EXCEPT !.op = "removeCachedData", !.key = cacheKey,
                          !.status = 200]
  /\ UNCHANGED R_GlobalEnv

\* the keys R or the registry hold something for
UsedKeys ==
  {k \in Keys : \/ k \in DOMAIN s_cachedFrames
                \/ cachedData[k] # NULL
                \/ workingData[k] # NullData}

\* a slip: the descriptor displays no rows
makeDataItem_NoneDisplayed(dataSEXP, cacheKey) ==
  [draw |-> 0, recordsTotal |-> nrow(dataSEXP), recordsFiltered |-> 0,
   data |-> <<>>]

\* makeDataItem: the rows and columns of the descriptor
makeDataItem(dataSEXP, cacheKey) ==
  [draw |-> 0, recordsTotal |-> nrow(dataSEXP), recordsFiltered |-> nrow(dataSEXP),
   data |-> <<>>]

\* duplicateDataView(caption, envName, objName, cacheKey);
\* .rs.addCachedData caches the data under a key it generates: one that is
\* not in use and is not the key of the view duplicated
duplicateDataView(envName, cacheKey, newCacheKey) ==
  LET live     == findInNamedEnvir(envName, ObjName)
      dataSEXP == IF live # NULL THEN DataOf(live)
                  ELSE findDataFrame(envName, ObjName, cacheKey)
      request  == [Idle EXCEPT !.op = "duplicateDataView", !.key = cacheKey,
                               !.status = 200]
  IN  IF dataSEXP = NullData
      THEN /\ last' = request
           /\ UNCHANGED <<R_GlobalEnv, s_cachedFrames, workingData, cachedData,
                          lastQuery>>
      ELSE /\ newCacheKey \notin UsedKeys \cup {cacheKey}
           /\ cachedData' = [cachedData EXCEPT ![newCacheKey] = dataSEXP.obj]
           /\ last' = [request EXCEPT !.newKey = newCacheKey,
                                      !.response = makeDataItem(dataSEXP, newCacheKey)]
           /\ UNCHANGED <<R_GlobalEnv, s_cachedFrames, workingData, lastQuery>>

\* rs_viewData: View() has cached the data under a new key; the show_data
\* event opens the viewer
rs_viewData(dataSEXP, cacheKey) ==
  /\ cacheKey \notin UsedKeys
  /\ cachedData' = [cachedData EXCEPT ![cacheKey] = dataSEXP]
  /\ last' = [Idle EXCEPT !.op = "rs_viewData", !.key = cacheKey,
                          !.events = <<[event |-> "show_data", cache_key |-> cacheKey,
                                        structure_changed |-> FALSE]>>]
  /\ UNCHANGED <<R_GlobalEnv, s_cachedFrames, workingData, lastQuery>>

\* a slip: the frame is constructed anew without comparing the identity
ScannedFrame_Always(k, garbage) ==
  LET f == s_cachedFrames[k]
  IN  CachedFrame(f.envName, f.objName, findInNamedEnvir(f.envName, f.objName),
                  garbage[k][1], garbage[k][2])

\* the frame onDetectChanges leaves for key k
ScannedFrame(k, garbage) ==
  LET f    == s_cachedFrames[k]
      sexp == findInNamedEnvir(f.envName, f.objName)
  IN  IF sexp # f.observedSEXP
      THEN CachedFrame(f.envName, f.objName, sexp, garbage[k][1], garbage[k][2])
      ELSE f

Changed(k) ==
  /\ k \in DOMAIN s_cachedFrames
  /\ findInNamedEnvir(s_cachedFrames[k].envName, s_cachedFrames[k].objName)
       # s_cachedFrames[k].observedSEXP

\* the data_view_changed events of a scan, in the order of the map
RECURSIVE ScanEvents(_, _)
ScanEvents(ks, garbage) ==
  IF ks = <<>> THEN <<>>
  ELSE LET k == Head(ks)
           f == s_cachedFrames[k]
           newFrame == ScannedFrame(k, garbage)
       IN  (IF Changed(k)
            THEN <<[event |-> "data_view_changed", cache_key |-> k,
                    structure_changed |-> \/ f.ncol # newFrame.ncol
                                          \/ f.colNames # newFrame.colNames]>>
            ELSE <<>>) \o ScanEvents(Tail(ks), garbage)

\* onDetectChanges
onDetectChanges(garbage) ==
  /\ s_cachedFrames' = [k \in DOMAIN s_cachedFrames |-> ScannedFrame(k, garbage)]
  /\ workingData' = [k \in Keys |-> IF Changed(k)
                                   THEN removeWorkingData(workingData, k)[k]
                                   ELSE workingData[k]]
  /\ lastQuery' = [k \in Keys |-> IF Changed(k) THEN NoQuery ELSE lastQuery[k]]
  /\ last' = [Idle EXCEPT !.op = "onDetectChanges",
                          !.events = ScanEvents(KeySeq, garbage)]
  /\ UNCHANGED <<R_GlobalEnv, cachedData>>

\* the session binds the name to another object, or removes it
Assign(sexp) ==
  /\ sexp # R_GlobalEnv
  /\ R_GlobalEnv' = sexp
  /\ last' = [Idle EXCEPT !.op = "Assign"]
  /\ UNCHANGED <<s_cachedFrames, workingData, cachedData, lastQuery>>

\* ------------------------------------------------------------------------
\* The specification
\* ------------------------------------------------------------------------

Init ==
  /\ R_GlobalEnv = NULL
  /\ s_cachedFrames = <<>>
  /\ workingData = [k \in Keys |-> NullData]
  /\ cachedData = [k \in Keys |-> NULL]
  /\ lastQuery = [k \in Keys |-> NoQuery]
  /\ last = Idle
  /\ inFlight = Quiet

\* the indeterminate members matter only where a frame is constructed
GarbageIf(constructs) ==
  IF constructs THEN Indeterminate ELSE {CHOOSE g \in Indeterminate : TRUE}

\* what the members no constructor initializes hold in the frames a scan
\* constructs
ScanGarbage ==
  LET g0 == CHOOSE g \in Indeterminate : TRUE
  IN  {g \in [Keys -> Indeterminate \X Indeterminate] :
         \A k \in Keys :
           /\ (~Changed(k) \/ R_GlobalEnv # NULL) => g[k][1] = g0
           /\ ~Changed(k) => g[k][2] = g0}

\* the steps of a session in which every handler runs to its end before
\* the next one starts: the page requests carry a key k of keys, an
\* environment of envs, a query of queries[k], a page of pages and a draw
\* token of draws; the session binds the objects of objs and views those
\* of viewed
NextOf(keys, envs, objs, viewed, queries, pages, draws) ==
  \/ \E k \in keys, e \in envs, p \in pages, d \in draws,
        outcome \in {"ok", "fail"} :
       \E q \in queries[k],
          gn \in GarbageIf(e # kNoBoundEnv /\ k \notin DOMAIN s_cachedFrames
                           /\ R_GlobalEnv = NULL),
          go \in GarbageIf(e # kNoBoundEnv /\ k \notin DOMAIN s_cachedFrames) :
         getGridData(k, e, q, p, d, outcome, gn, go) /\ UNCHANGED inFlight
  \/ \E k \in keys : removeCachedData(k) /\ UNCHANGED inFlight
  \/ \E e \in envs, k \in keys, n \in Keys :
       duplicateDataView(e, k, n) /\ UNCHANGED inFlight
  \/ \E o \in viewed, k \in keys : rs_viewData(o, k) /\ UNCHANGED inFlight
  \/ \E g \in ScanGarbage : onDetectChanges(g) /\ UNCHANGED inFlight
  \/ \E o \in objs \cup {NULL} : Assign(o) /\ UNCHANGED inFlight

FirstPage == [start |-> 0, length |-> MaxLength]

\* one view; the requests differ in their queries and environments
Next ==
  NextOf({"K1"}, Envs, {"df1", "df2"}, {"df1"},
         [k \in Keys |-> {qNone, qApp, qAppApple, qOrder}], {FirstPage}, {1})

Spec == Init /\ [][Next]_vars

\* one view; the requests differ in their pages and draw tokens
NextPage ==
  NextOf({"K1"}, {"R_GlobalEnv"}, {"df2"}, {"df2"},
         [k \in Keys |-> {qNone, qApp, qOrder}], Pages, Draws)

SpecPage == Init /\ [][NextPage]_vars

\* two views of a name the session rebinds to objects of other shapes
NextScan ==
  NextOf(Keys, {"R_GlobalEnv"}, {"df1", "mat"}, {"df1"},
         [k \in Keys |-> IF k = "K1" THEN {qNone, qApp} ELSE {qNone}],
         {FirstPage}, {1})

SpecScan == Init /\ [][NextScan]_vars


\* two views of one object, each with its own requests
NextDup ==
  NextOf(Keys, {"R_GlobalEnv"}, {"df1"}, {"df1"},
         [k \in Keys |-> {qNone, qApp, qOrder}], {FirstPage}, {1})

SpecDup == Init /\ [][NextDup]_vars

\* one view of an object that is bound once and never again: the requests
\* differ in their queries and pages, and nothing but them touches the key
NextReuse ==
  \/ /\ R_GlobalEnv = NULL
     /\ Assign("df2")
     /\ UNCHANGED inFlight
  \/ \E q \in {qNone, qApp, qApple, qOrder, qTwo, qTwoNine},
        p \in {FirstPage, [start |-> 1, length |-> 2]},
        outcome \in {"ok", "fail"},
        gn \in GarbageIf("K1" \notin DOMAIN s_cachedFrames /\ R_GlobalEnv = NULL),
        go \in GarbageIf("K1" \notin DOMAIN s_cachedFrames) :
       /\ getGridData("K1", "R_GlobalEnv", q, p, 1, outcome, gn, go)
       /\ UNCHANGED inFlight

SpecReuse == Init /\ [][NextReuse]_vars

\* ------------------------------------------------------------------------
\* Handlers entered while another handler is inside an engine call
\* ------------------------------------------------------------------------

\* getGridData up to the call of .rs.applyTransform, for a request that
\* needs one: the frame is observed, the data found, the iterator
\* cachedFrame taken (found: it is not end()) and the input chosen; the
\* call is then in flight.  entry tells what has become of the map node
\* the iterator points to: "same", "replaced" (assigned by a scan) or
\* "erased".
beginTransform(cacheKey, envName, q, page, draw, garbageNcol, garbageOrderCol) ==
  /\ inFlight = Quiet
  /\ \E frames1 \in {Observe(s_cachedFrames, envName, ObjName, cacheKey,
                             garbageNcol, garbageOrderCol)},
        dataSEXP \in {findDataFrame(envName, ObjName, cacheKey)} :
       /\ dataSEXP # NullData
       /\ NeedsTransform(q, dataSEXP)
       /\ \E copy \in {WorkingCopy(frames1, workingData, cacheKey, q,
                                   RequestFilters(q, dataSEXP), TRUE)} :
            /\ copy # "exact"
            /\ s_cachedFrames' = frames1
            /\ inFlight' =
                 [inFlight EXCEPT !.transform =
                    [key |-> cacheKey, env |-> envName, query |-> q,
                     page |-> page, draw |-> draw,
                     filters |-> RequestFilters(q, dataSEXP),
                     copy |-> copy,
                     x |-> IF copy = "superset"
                           THEN findWorkingData(workingData, cacheKey)
                           ELSE dataSEXP,
                     nrow0 |-> nrow(dataSEXP), ncol0 |-> ncol(dataSEXP),
                     found |-> cacheKey \in DOMAIN frames1,
                     entry |-> "same"]]
            /\ last' = [Idle EXCEPT !.op = ".rs.applyTransform", !.key = cacheKey,
                                    !.env = envName, !.query = q]
  /\ UNCHANGED <<R_GlobalEnv, workingData, cachedData, lastQuery>>

\* getData from the return of .rs.applyTransform on.  The parameters are
\* written through the iterator taken before the call: into the node it
\* points to when that is still in the map, nowhere when it was end().
\* When the node was erased the iterator dangles and the write is undefined:
\* lands tells whether it reaches an entry the map holds for the key now.
endTransform(outcome, lands) ==
  LET c == inFlight.transform
  IN  /\ c # NoCall
      /\ ~inFlight.scanning
      /\ \E writes \in {/\ c.found
                        /\ c.key \in DOMAIN s_cachedFrames
                        /\ (c.entry = "erased" => lands)} :
         \E r \in {getDataPage(IF writes THEN s_cachedFrames
                               ELSE Erase(s_cachedFrames, c.key),
                               workingData, c.key, c.query, c.page, c.draw,
                               outcome, c.filters, c.nrow0, c.ncol0, c.copy, TRUE,
                               applyTransform(c.x, c.filters, c.query.search,
                                              c.query.ordercol, c.query.orderdir,
                                              outcome))} :
           /\ s_cachedFrames' = IF writes THEN r.frames ELSE s_cachedFrames
           /\ workingData' = r.working
           /\ last' = [r.answer EXCEPT !.op = "getGridData", !.key = c.key,
                                       !.env = c.env, !.query = c.query,
                                       !.page = c.page, !.draw = c.draw]
           /\ lastQuery' = [lastQuery EXCEPT ![c.key] = NoQuery]
           /\ inFlight' = [inFlight EXCEPT !.transform = NoCall]
      /\ UNCHANGED <<R_GlobalEnv, cachedData>>

\* removeCachedData handled while the page request is inside its call
removeCachedDataNested(cacheKey) ==
  /\ inFlight.transform # NoCall
  /\ ~inFlight.scanning
  /\ removeCachedData(cacheKey)
  /\ inFlight' = IF /\ cacheKey = inFlight.transform.key
                    /\ cacheKey \in DOMAIN s_cachedFrames
                 THEN [inFlight EXCEPT !.transform.entry = "erased"]
                 ELSE inFlight

\* a page request handled, to its end, while another one is inside its
\* call; an entry it creates is another node than an erased one
getGridDataNested(cacheKey, envName, q, page, draw, outcome, garbageNcol, garbageOrderCol) ==
  /\ inFlight.transform # NoCall
  /\ ~inFlight.scanning
  /\ getGridData(cacheKey, envName, q, page, draw, outcome, garbageNcol, garbageOrderCol)
  /\ UNCHANGED inFlight

\* DROP_RECURSIVE_CALLS: the macro keeps a flag that is set while the
\* function it stands in is running, and returns from a call that finds
\* the flag set
DROP_RECURSIVE_CALLS(s_inFunction) == s_inFunction

\* a slip: the handler has no recursion guard
enterDetectChanges_Unguarded ==
  /\ inFlight' = [inFlight EXCEPT !.scanning = TRUE, !.pending = KeySeq,
                                  !.events = <<>>, !.bodies = @ + 1]
  /\ last' = [Idle EXCEPT !.op = "onDetectChanges: entered"]
  /\ UNCHANGED <<R_GlobalEnv, s_cachedFrames, workingData, cachedData, lastQuery>>

\* onDetectChanges is called.  DROP_RECURSIVE_CALLS returns at once when
\* the function is already running (s_inFunction); otherwise the function
\* is marked as running and its loop starts.
enterDetectChanges ==
  IF DROP_RECURSIVE_CALLS(inFlight.scanning)
  THEN /\ last' = [Idle EXCEPT !.op = "onDetectChanges: dropped"]
       /\ UNCHANGED <<R_GlobalEnv, s_cachedFrames, workingData, cachedData,
                      lastQuery, inFlight>>
  ELSE /\ inFlight' = [inFlight EXCEPT !.scanning = TRUE, !.pending = KeySeq,
                                       !.events = <<>>, !.bodies = @ + 1]
       /\ last' = [Idle EXCEPT !.op = "onDetectChanges: entered"]
       /\ UNCHANGED <<R_GlobalEnv, s_cachedFrames, workingData, cachedData,
                      lastQuery>>

\* one turn of the loop of onDetectChanges, for the key at the head of
\* pending (the loop walks the map in key order and skips the keys the map
\* does not hold when their turn comes): the calls findInNamedEnvir, CachedFrame(), .rs.removeWorkingData
\* and enqueClientEvent, and the assignment of the new frame
scanEntry(garbage) ==
  /\ inFlight.scanning
  /\ inFlight.pending # <<>>
  /\ LET k == Head(inFlight.pending)
     IN  /\ s_cachedFrames' =
               IF Changed(k)
               THEN [s_cachedFrames EXCEPT ![k] = ScannedFrame(k, garbage)]
               ELSE s_cachedFrames
         /\ workingData' = IF Changed(k) THEN removeWorkingData(workingData, k)
                           ELSE workingData
         /\ lastQuery' = IF Changed(k) THEN [lastQuery EXCEPT ![k] = NoQuery]
                         ELSE lastQuery
         /\ inFlight' =
               [inFlight EXCEPT
                  !.pending = Tail(@),
                  !.events = @ \o ScanEvents(<<k>>, garbage),
                  !.transform =
                     IF /\ @ # NoCall /\ Changed(k)
                        /\ inFlight.transform.key = k
                        /\ inFlight.transform.entry = "same"
                     THEN [@ EXCEPT !.entry = "replaced"] ELSE @]
         /\ last' = [Idle EXCEPT !.op = "onDetectChanges: entry", !.key = k]
  /\ UNCHANGED <<R_GlobalEnv, cachedData>>

\* the loop of onDetectChanges is over; the guard is released
leaveDetectChanges ==
  /\ inFlight.scanning
  /\ inFlight.pending = <<>>
  /\ inFlight' = [inFlight EXCEPT !.scanning = FALSE, !.events = <<>>,
                                  !.bodies = @ - 1]
  /\ last' = [Idle EXCEPT !.op = "onDetectChanges", !.events = inFlight.events]
  /\ UNCHANGED <<R_GlobalEnv, s_cachedFrames, workingData, cachedData, lastQuery>>

\* one view: handlers that run to their end while nothing is in flight,
\* and handlers entered from inside the engine calls of a page request and
\* of a scan
NextNested ==
  \/ /\ inFlight = Quiet
     /\ NextOf({"K1"}, {"R_GlobalEnv"}, {"df1", "df2"}, {"df1"},
               [k \in Keys |-> {qNone, qApp}], {FirstPage}, {1})
  \/ \E q \in {qApp, qAppApple},
        gn \in GarbageIf("K1" \notin DOMAIN s_cachedFrames /\ R_GlobalEnv = NULL),
        go \in GarbageIf("K1" \notin DOMAIN s_cachedFrames) :
       beginTransform("K1", "R_GlobalEnv", q, FirstPage, 1, gn, go)
  \/ \E outcome \in {"ok", "fail"}, lands \in BOOLEAN : endTransform(outcome, lands)
  \/ removeCachedDataNested("K1")
  \/ \E q \in {qNone, qApp},
        gn \in GarbageIf("K1" \notin DOMAIN s_cachedFrames /\ R_GlobalEnv = NULL),
        go \in GarbageIf("K1" \notin DOMAIN s_cachedFrames) :
       getGridDataNested("K1", "R_GlobalEnv", q, FirstPage, 1, "ok", gn, go)
  \/ enterDetectChanges
  \/ \E g \in ScanGarbage : scanEntry(g)
  \/ leaveDetectChanges

SpecNested == Init /\ [][NextNested]_vars

\* ------------------------------------------------------------------------
\* The comparators on their own
\* ------------------------------------------------------------------------

MaxLen == 3
MaxFilters == 2

\* the characters of the strings compared: a letter, digits, the dash and
\* the point of the numeric-range pattern
Chars == {"a", "1", "7", "-", "."}

StringsUpTo(n) == UNION {[1..k -> Chars] : k \in 0..n}

\* longer strings: prefixes of one another, ranges, and strings that hold
\* a range after or before other text
LongStrings ==
  {<<"a", "b", "c">>, <<"a", "b", "c", "d">>,
   <<"1", "-", "1", "0">>, <<"3", "-", "7">>, <<"1", ".", "5", "-", "7">>,
   <<"a", "1", "-", "7">>, <<"1", "-", "7", "a">>}

FilterStrings == StringsUpTo(MaxLen) \cup LongStrings

\* a call isFilterSubset(outer, inner)
callIsFilterSubset(outer, inner) ==
  /\ last' = [op |-> "isFilterSubset", outer |-> outer, inner |-> inner,
              result |-> isFilterSubset(outer, inner)]
  /\ UNCHANGED <<R_GlobalEnv, s_cachedFrames, workingData, cachedData, lastQuery,
                 inFlight>>

\* the searches and filters recorded in a frame and carried by a request
FrameSearches == {sEmpty, sApp, sApple}
FrameFilters  == {sEmpty, sApp, sApple, <<"1", "-", "7">>, <<"3", "-", "7">>}
FilterVectors == UNION {[1..k -> FrameFilters] : k \in 0..MaxFilters}

\* a call frame.isSupersetOf(newSearch, newFilters) on a frame that records
\* workingSearch and workingFilters
callIsSupersetOf(workingSearch, workingFilters, newSearch, newFilters) ==
  /\ last' = [op |-> "isSupersetOf",
              workingSearch |-> workingSearch, workingFilters |-> workingFilters,
              newSearch |-> newSearch, newFilters |-> newFilters,
              result |-> isSupersetOf(
                           [CachedFrame("R_GlobalEnv", ObjName, NULL, 0, 0)
                              EXCEPT !.workingSearch = workingSearch,
                                     !.workingFilters = workingFilters],
                           newSearch, newFilters)]
  /\ UNCHANGED <<R_GlobalEnv, s_cachedFrames, workingData, cachedData, lastQuery,
                 inFlight>>

\* one call of a comparator, on any arguments
NextSubset ==
  \/ /\ last = Idle
     /\ \E outer \in FilterStrings, inner \in FilterStrings :
          callIsFilterSubset(outer, inner)
  \/ /\ last = Idle
     /\ \E ws \in FrameSearches, ns \in FrameSearches :
          \E wf \in FilterVectors, nf \in FilterVectors :
            callIsSupersetOf(ws, wf, ns, nf)

SpecSubset == Init /\ [][NextSubset]_vars

\* the strings of a chain of narrowings: prefixes of one another and
\* numeric ranges over few characters, and the ranges "2-9" and "3-4"
ChainChars == {"2", "3", "-"}

ChainStrings ==
  UNION {[1..k -> ChainChars] : k \in 0..MaxLen}
    \cup {<<"2", "-", "9">>, <<"3", "-", "4">>}

\* a chain of narrowings: a working transform made for a is asked to serve
\* b, and the one made for b to serve c; what isFilterSubset answers for
\* the two steps and for a and c directly
callChain(a, b, c) ==
  /\ last' = [op |-> "isFilterSubset chain", a |-> a, b |-> b, c |-> c,
              ab |-> isFilterSubset(a, b), bc |-> isFilterSubset(b, c),
              ac |-> isFilterSubset(a, c)]
  /\ UNCHANGED <<R_GlobalEnv, s_cachedFrames, workingData, cachedData, lastQuery,
                 inFlight>>

NextChain ==
  /\ last = Idle
  /\ \E a \in ChainStrings, b \in ChainStrings, c \in ChainStrings :
       callChain(a, b, c)

SpecChain == Init /\ [][NextChain]_vars

\* ------------------------------------------------------------------------
\* Properties
\* ------------------------------------------------------------------------

IsPageRequest(l) == l.op = "getGridData"

\* the data of the request was found
Found(l) == l.error # "The object no longer exists."

\* the request was answered with a page
Succeeded(l) == l.status = 200 /\ l.error = ""

\* the request asks for an order, a search or a filter on one of the
\* columns of its data
Active(q, columns) ==
  \/ q.ordercol > 0
  \/ q.search # sEmpty
  \/ \E i \in 1..Len(q.filters) : i <= columns /\ q.filters[i] # sEmpty

\* the filters of q, one per column
FiltersOf(q, columns) ==
  [i \in 1..columns |-> IF i <= Len(q.filters) THEN q.filters[i] ELSE sEmpty]

\* a working transform is stored for k and the entry of k records exactly q
StoredFor(k, q, columns) ==
  /\ k \in DOMAIN s_cachedFrames
  /\ workingData[k] # NullData
  /\ s_cachedFrames[k].workingSearch = q.search
  /\ s_cachedFrames[k].workingFilters = FiltersOf(q, columns)
  /\ s_cachedFrames[k].workingOrderCol = q.ordercol
  /\ s_cachedFrames[k].workingOrderDir = q.orderdir

\* the entries the registry held keep their place and their fields
EntriesKept ==
  \A k \in DOMAIN s_cachedFrames :
    k \in DOMAIN s_cachedFrames' /\ s_cachedFrames'[k] = s_cachedFrames[k]

\* C1: when a page request that needed a transform succeeded and the next
\* page request on the key carries the same search, filters and order
\* (nothing having invalidated or removed the key in between), the second
\* request calls no Transform and serves the stored working transform.
C1_RepeatIsServedFromWorkingCopy ==
  (IsPageRequest(last) /\ last.repeat /\ Found(last))
    => (last.transformCalls = 0 /\ last.hasTransform)

\* C2: a page request with an active order, search or filter calls Transform
\* exactly once, unless a working transform is stored for the key and the
\* recorded search, filters and order equal the requested ones, and then it
\* calls none; after search "app" on K1, search "app" with the filter
\* "apple" on column 1 calls a fresh Transform and is not served verbatim.
C2_TransformUnlessSameParameters ==
  [][LET k   == last'.key
         q   == last'.query
         raw == findDataFrame(last'.env, ObjName, k)
     IN  /\ (IsPageRequest(last') /\ Found(last') /\ Active(q, ncol(raw)))
              => /\ last'.transformCalls
                      = (IF StoredFor(k, q, ncol(raw)) THEN 0 ELSE 1)
                 /\ last'.hasTransform = StoredFor(k, q, ncol(raw))
         /\ (/\ IsPageRequest(last') /\ Found(last')
             /\ k = "K1" /\ q = qAppApple /\ lastQuery[k] = qApp)
              => (last'.transformCalls = 1 /\ ~last'.hasTransform)]_vars

\* C2: search "app" with the filter "apple" was answered by a fresh
\* Transform of the working copy that search "app" had left
C2_Witness ==
  /\ IsPageRequest(last) /\ last.key = "K1" /\ last.query = qAppApple
  /\ Succeeded(last) /\ last.transformCalls = 1 /\ ~last.hasTransform
  /\ last.transformInput = "working"

\* C3: when Transform fails during a page request, the request ends with a
\* data-processing error, and neither the recorded working parameters nor
\* the stored working transforms are changed by it.
C3_FailedTransformChangesNothing ==
  [][(IsPageRequest(last') /\ last'.engine = "fail")
       => /\ last'.status = 500
          /\ last'.error = "Failure to sort or filter data"
          /\ last'.response = NoResponse
          /\ workingData' = workingData
          /\ EntriesKept
          /\ \A k \in DOMAIN s_cachedFrames' \ DOMAIN s_cachedFrames :
               /\ s_cachedFrames'[k].workingSearch = sEmpty
               /\ s_cachedFrames'[k].workingFilters = <<>>]_vars

\* C3: a Transform failed for a key whose entry records an earlier search
\* and whose working transform is stored
C3_Witness ==
  /\ IsPageRequest(last) /\ last.engine = "fail" /\ last.status = 500
  /\ last.key \in DOMAIN s_cachedFrames
  /\ s_cachedFrames[last.key].workingSearch = sApp
  /\ workingData[last.key] # NullData

\* the object the entry of k resolves to now
Resolved(k) ==
  IF s_cachedFrames[k].envName = kNoBoundEnv THEN NULL ELSE R_GlobalEnv

Drifted(k) == Resolved(k) # s_cachedFrames[k].observedSEXP

IsScan(l) == l.op = "onDetectChanges"

\* C4: when a scan finds that an entry's resolved identity differs from the
\* observed one, then by its end the working transform of the key is
\* discarded and the entry holds the new identity and shape, with the
\* working search, filters and order reset.
C4_ScanResetsTheEntry ==
  [][IsScan(last')
       => \A k \in DOMAIN s_cachedFrames :
            Drifted(k)
              => /\ workingData'[k] = NullData
                 /\ k \in DOMAIN s_cachedFrames'
                 /\ s_cachedFrames'[k].observedSEXP = Resolved(k)
                 /\ s_cachedFrames'[k].colNames
                      = (IF Resolved(k) = NULL THEN <<>> ELSE RNames(Resolved(k)))
                 /\ s_cachedFrames'[k].ncol
                      = (IF Resolved(k) = NULL THEN 0 ELSE RNcol(Resolved(k)))
                 /\ s_cachedFrames'[k].workingSearch = sEmpty
                 /\ s_cachedFrames'[k].workingFilters = <<>>
                 /\ s_cachedFrames'[k].workingOrderCol <= 0]_vars

\* the notifications the scan owes, in the order of the keys
RECURSIVE OwedEvents(_)
OwedEvents(ks) ==
  IF ks = <<>> THEN <<>>
  ELSE LET k == Head(ks)
           f == s_cachedFrames[k]
           newNcol  == IF Resolved(k) = NULL THEN 0 ELSE RNcol(Resolved(k))
           newNames == IF Resolved(k) = NULL THEN <<>> ELSE RNames(Resolved(k))
       IN  (IF k \in DOMAIN s_cachedFrames /\ Drifted(k)
            THEN <<[event |-> "data_view_changed", cache_key |-> k,
                    structure_changed |-> (f.ncol # newNcol \/ f.colNames # newNames)]>>
            ELSE <<>>) \o OwedEvents(Tail(ks))

\* C5: for every entry whose identity mismatch a scan detects, the scan emits
\* exactly one data_view_changed for the key, with structure_changed true
\* if and only if the recorded column count or column names differ from
\* those of the new identity.
C5_OneEventPerDrift ==
  [][IsScan(last') => last'.events = OwedEvents(KeySeq)]_vars

\* C6: a scan in which every entry resolves to its observed identity emits
\* nothing, discards no working transform and leaves every entry as it is;
\* the second of two scans in a row emits nothing; no scan adds or removes
\* a key of the registry.
C6_ScanIsIdempotent ==
  [][IsScan(last')
       => /\ (\A k \in DOMAIN s_cachedFrames : ~Drifted(k))
               => /\ last'.events = <<>>
                  /\ workingData' = workingData
                  /\ s_cachedFrames' = s_cachedFrames
          /\ IsScan(last) => last'.events = <<>>
          /\ DOMAIN s_cachedFrames' = DOMAIN s_cachedFrames]_vars

\* C6: a scan found nothing changed while an entry recorded a search and its
\* working transform was stored
C6_Witness ==
  /\ IsScan(last) /\ last.events = <<>>
  /\ "K1" \in DOMAIN s_cachedFrames
  /\ s_cachedFrames["K1"].workingSearch = sApp
  /\ workingData["K1"] # NullData
  /\ "K2" \in DOMAIN s_cachedFrames

\* C7: with no working transform stored, a page request with no order, no
\* search and no filter calls no Transform, leaves the recorded working
\* parameters and the stored working transform alone and reports the raw
\* row count as recordsFiltered.
C7_PlainRequestBypassesTransform ==
  [][LET k   == last'.key
         raw == findDataFrame(last'.env, ObjName, k)
     IN  (/\ IsPageRequest(last') /\ Found(last')
          /\ ~Active(last'.query, ncol(raw))
          /\ workingData[k] = NullData)
           => /\ last'.transformCalls = 0
              /\ Succeeded(last')
              /\ workingData' = workingData
              /\ EntriesKept
              /\ last'.response.recordsFiltered = nrow(raw)]_vars

\* C7: a plain request was answered for a registered key without a working
\* transform
C7_Witness ==
  /\ IsPageRequest(last) /\ last.query = qNone /\ Succeeded(last)
  /\ last.key \in DOMAIN s_cachedFrames
  /\ workingData[last.key] = NullData
  /\ last.transformCalls = 0
  /\ last.response.recordsFiltered = Len(RRows("df1"))

\* C8: the length handed to the formatters and the number of rows of the
\* grid are the requested length clamped to max(0, filtered rows - start),
\* never negative; the start handed to the engine is the zero-based start
\* plus one.
C8_LengthIsClamped ==
  (IsPageRequest(last) /\ Succeeded(last))
    => LET clamped == Min(last.page.length,
                          Max(0, last.response.recordsFiltered - last.page.start))
       IN  /\ last.formatLength = clamped
           /\ Len(last.response.data) = clamped
           /\ last.formatLength >= 0
           /\ last.formatStart = last.page.start + 1

\* C9: in a successful page response recordsFiltered is the row count of the
\* transform result when a transform was applied or reused and the raw row
\* count otherwise, recordsTotal is the raw row count, and draw is the
\* request's draw token.
C9_Counts ==
  (IsPageRequest(last) /\ Succeeded(last))
    => LET raw == findDataFrame(last.env, ObjName, last.key)
       IN  /\ last.response.recordsTotal = nrow(raw)
           /\ last.response.draw = last.draw
           /\ last.response.recordsFiltered
                = (IF last.transformCalls = 1 \/ last.hasTransform
                   THEN nrow(workingData[last.key]) ELSE nrow(raw))

\* C9: a response served from the working copy reports fewer filtered rows
\* than there are rows
C9_Witness ==
  /\ IsPageRequest(last) /\ Succeeded(last) /\ last.hasTransform
  /\ last.draw = MaxDraw
  /\ last.response.recordsFiltered < last.response.recordsTotal
  /\ last.response.recordsFiltered > 0

\* C10: after RemoveView(K) the registry has no entry for K and the working
\* transform and cached data of K are released, the entries, working
\* transforms and cached data of the other keys are as before, and the
\* call returns without error (also for a key that is not registered).
C10_RemoveTouchesOneKey ==
  [][last'.op = "removeCachedData"
       => LET k == last'.key
          IN  /\ k \notin DOMAIN s_cachedFrames'
              /\ workingData'[k] = NullData
              /\ cachedData'[k] = NULL
              /\ last'.status = 200 /\ last'.error = ""
              /\ \A j \in Keys \ {k} :
                   /\ (j \in DOMAIN s_cachedFrames') = (j \in DOMAIN s_cachedFrames)
                   /\ j \in DOMAIN s_cachedFrames
                        => s_cachedFrames'[j] = s_cachedFrames[j]
                   /\ workingData'[j] = workingData[j]
                   /\ cachedData'[j] = cachedData[j]]_vars

\* C10: a view was removed while the other key had an entry, a working
\* transform and cached data
C10_Witness ==
  /\ last.op = "removeCachedData" /\ last.key = "K2"
  /\ "K2" \notin DOMAIN s_cachedFrames
  /\ "K1" \in DOMAIN s_cachedFrames
  /\ workingData["K1"] # NullData
  /\ cachedData["K1"] # NULL


\* a numeral of the range pattern: digits, then maybe a point and digits
IsNumeral(t) ==
  \E k \in 1..Len(t) :
    /\ \A j \in 1..k : t[j] \in Digits
    /\ \/ k = Len(t)
       \/ t[k + 1] = "." /\ \A j \in (k + 2)..Len(t) : t[j] \in Digits

\* the whole of s is <lower>-<upper> with the dash at k
IsRangeAt(s, k) ==
  /\ s[k] = "-"
  /\ IsNumeral(SubSeq(s, 1, k - 1))
  /\ IsNumeral(SubSeq(s, k + 1, Len(s)))

ParsesAsRange(s) == \E k \in 1..Len(s) : IsRangeAt(s, k)

Lower(s) == stringTo(SubSeq(s, 1, (CHOOSE k \in 1..Len(s) : IsRangeAt(s, k)) - 1))
Upper(s) ==
  stringTo(SubSeq(s, (CHOOSE k \in 1..Len(s) : IsRangeAt(s, k)) + 1, Len(s)))

StartsWith(s, p) == Len(s) >= Len(p) /\ \A i \in 1..Len(p) : s[i] = p[i]

\* the reference relation
IsSubset(outer, inner) ==
  IF outer = inner THEN TRUE
  ELSE IF ParsesAsRange(outer) /\ ParsesAsRange(inner)
  THEN Lower(inner) >= Lower(outer) /\ Upper(inner) <= Upper(outer)
  ELSE StartsWith(inner, outer)

\* C11: isFilterSubset(outer, inner) equals the reference for all strings:
\* true for equal strings; for two strings that are numeric ranges, true iff
\* the bounds of inner lie within those of outer; otherwise true iff inner
\* starts with outer.  A string that only contains a range is no range.
C11_SubsetIsTheReference ==
  last.op = "isFilterSubset" => last.result = IsSubset(last.outer, last.inner)


\* the indices the two filter vectors share
Shared(a, b) == 1..(IF Len(a) < Len(b) THEN Len(a) ELSE Len(b))

\* C12: isSupersetOf(newSearch, newFilters) is true iff the working search
\* is a filter-superset of the new search and each working filter of each
\* new filter at every index the two vectors share; the filters beyond the
\* shorter vector do not affect the result.
C12_SupersetOverSharedIndices ==
  last.op = "isSupersetOf"
    => last.result
         = (/\ isFilterSubset(last.workingSearch, last.newSearch)
            /\ \A i \in Shared(last.newFilters, last.workingFilters) :
                 isFilterSubset(last.workingFilters[i], last.newFilters[i]))

\* C12: a narrower search and a narrower filter on the shared column are
\* accepted although the request carries a further filter that the frame
\* has no counterpart for
C12_Witness ==
  /\ last.op = "isSupersetOf" /\ last.result
  /\ last.workingSearch = sApp /\ last.newSearch = sApple
  /\ last.workingFilters = << <<"1", "-", "7">> >>
  /\ last.newFilters = << <<"3", "-", "7">>, sApple >>


\* the entry of k records no search, no filter and no order
NoWorkingParameters(k) ==
  /\ s_cachedFrames[k].workingSearch = sEmpty
  /\ \A i \in 1..Len(s_cachedFrames[k].workingFilters) :
       s_cachedFrames[k].workingFilters[i] = sEmpty
  /\ s_cachedFrames[k].workingOrderCol <= 0

\* C13: in every reachable state, a registered frame whose working search
\* is empty, whose working filters are all empty and whose working order
\* column is <= 0 has no working transform stored under its key.
C13_NoParametersNoWorkingCopy ==
  \A k \in DOMAIN s_cachedFrames :
    NoWorkingParameters(k) => workingData[k] = NullData


\* C14: in every reachable state, for every registered frame, the length of
\* workingFilters does not exceed the frame's recorded column count.
C14_FiltersWithinColumns ==
  \A k \in DOMAIN s_cachedFrames :
    Len(s_cachedFrames[k].workingFilters) <= s_cachedFrames[k].ncol


\* the identity and shape of an entry
ShapeOf(f) ==
  <<f.envName, f.objName, f.observedSEXP, f.ncol, f.colNames>>

\* the working search, filters and order of an entry
WorkingOf(f) ==
  <<f.workingSearch, f.workingFilters, f.workingOrderCol, f.workingOrderDir>>

\* C15: after any page request with cache key K the registry has an entry
\* for K (and the entries of no other key come or go): the first request
\* creates it; a later request finds the entry it left, its shape as it
\* was and its working search, filters and order either as they were or
\* as this request asked for them, never reset.
C15_RequestLeavesOneEntry ==
  [][IsPageRequest(last')
       => LET k == last'.key
          IN  /\ k \in DOMAIN s_cachedFrames'
              /\ DOMAIN s_cachedFrames' \ {k} = DOMAIN s_cachedFrames \ {k}
              /\ k \in DOMAIN s_cachedFrames
                   => /\ ShapeOf(s_cachedFrames'[k]) = ShapeOf(s_cachedFrames[k])
                      /\ \/ WorkingOf(s_cachedFrames'[k]) = WorkingOf(s_cachedFrames[k])
                         \/ /\ last'.transformCalls = 1 /\ last'.engine = "ok"
                            /\ s_cachedFrames'[k].workingSearch = last'.query.search
                            /\ s_cachedFrames'[k].workingOrderCol = last'.query.ordercol
                            /\ s_cachedFrames'[k].workingOrderDir = last'.query.orderdir]_vars


\* C16: when neither the live object nor a cached copy is found for a page
\* request, the response is the error "The object no longer exists." with
\* a status that is not 2xx, no Transform and no formatter is called, and
\* the entries and stored working transforms of the keys registered before
\* are unchanged.
C16_NotFound ==
  [][(/\ IsPageRequest(last')
      /\ findDataFrame(last'.env, ObjName, last'.key) = NullData)
       => /\ last'.error = "The object no longer exists."
          /\ last'.status \notin 200..299
          /\ last'.transformCalls = 0
          /\ last'.formatCalls = 0
          /\ last'.response = NoResponse
          /\ workingData' = workingData
          /\ EntriesKept]_vars


\* C17: duplicateDataView returns a descriptor whose cache key is new
\* (neither the source key nor a registered key) and whose displayed rows
\* equal its total rows, and leaves the registry and every stored working
\* transform as they are; a page request changes the entry and the working
\* transform of its own key only.
C17_ViewsAreIndependent ==
  [][/\ (last'.op = "duplicateDataView" /\ last'.newKey # "")
          => /\ last'.newKey # last'.key
             /\ last'.newKey \notin DOMAIN s_cachedFrames
             /\ last'.response.recordsFiltered = last'.response.recordsTotal
             /\ last'.response.recordsTotal
                  = nrow(findDataFrame("R_GlobalEnv", ObjName, last'.key))
             /\ s_cachedFrames' = s_cachedFrames
             /\ workingData' = workingData
     /\ IsPageRequest(last')
          => \A j \in Keys \ {last'.key} :
               /\ workingData'[j] = workingData[j]
               /\ (j \in DOMAIN s_cachedFrames') = (j \in DOMAIN s_cachedFrames)
               /\ j \in DOMAIN s_cachedFrames
                    => s_cachedFrames'[j] = s_cachedFrames[j]]_vars

\* C17: a registered view with a recorded search and a stored working
\* transform was duplicated under a new key
C17_Witness ==
  /\ last.op = "duplicateDataView" /\ last.key = "K1" /\ last.newKey = "K2"
  /\ last.response.recordsTotal = Len(RRows("df1"))
  /\ "K1" \in DOMAIN s_cachedFrames
  /\ s_cachedFrames["K1"].workingSearch = sApp
  /\ workingData["K1"] # NullData
  /\ cachedData["K2"] # NULL


\* the working search and filters the entry of k holds when the request
\* looks at it: those recorded before, or those of the constructor when
\* the request has just created the entry
RecordedFrame(k) ==
  IF k \in DOMAIN s_cachedFrames THEN s_cachedFrames[k]
  ELSE [workingSearch |-> sEmpty, workingFilters |-> <<>>]

\* C18: when a page request calls Transform, the input is the stored
\* working transform iff the key has an entry and a stored working
\* transform and the recorded search and filters are a superset
\* (isSupersetOf) of the requested ones, and the raw frame otherwise; on
\* success the result is stored as the working transform of the key and the
\* entry records exactly the requested search, filters, order column and
\* order direction.
C18_TransformInput ==
  [][(IsPageRequest(last') /\ last'.transformCalls = 1)
       => LET k       == last'.key
              q       == last'.query
              raw     == findDataFrame(last'.env, ObjName, k)
              filters == FiltersOf(q, ncol(raw))
          IN  /\ last'.transformInput \in {"working", "raw"}
              /\ (last'.transformInput = "working")
                   = (/\ k \in DOMAIN s_cachedFrames'
                      /\ workingData[k] # NullData
                      /\ isSupersetOf(RecordedFrame(k), q.search, filters))
              /\ last'.engine = "ok"
                   => /\ workingData'[k] # NullData
                      /\ Succeeded(last')
                           => nrow(workingData'[k]) = last'.response.recordsFiltered
                      /\ k \in DOMAIN s_cachedFrames'
                           => WorkingOf(s_cachedFrames'[k])
                                = <<q.search, filters, q.ordercol, q.orderdir>>
              /\ last'.engine = "fail"
                   => workingData'[k] = workingData[k]]_vars

\* C18: a search was answered by narrowing the working transform that an
\* ordering request had stored, and the entry records the search
C18_Witness ==
  /\ IsPageRequest(last) /\ last.query = qApp /\ Succeeded(last)
  /\ last.transformCalls = 1 /\ last.transformInput = "working"
  /\ lastQuery[last.key] = qApp
  /\ last.key \in DOMAIN s_cachedFrames
  /\ WorkingOf(s_cachedFrames[last.key])
       = <<qApp.search, <<sEmpty, sEmpty>>, qApp.ordercol, qApp.orderdir>>
  /\ nrow(workingData[last.key]) = 2

\* a step that is a call of onDetectChanges (dropped or entered)
IsTrigger(l) == l.op \in {"onDetectChanges: dropped", "onDetectChanges: entered"}

\* C19: a call of onDetectChanges made while a scan is in progress returns
\* at once: it leaves the registry, the working data and the scan in
\* progress as they are and emits no notification; at no instant is more
\* than one body of the scan active.
C19_NestedScanIsDropped ==
  [][/\ inFlight'.bodies <= 1
     /\ (inFlight.scanning /\ IsTrigger(last'))
          => /\ UNCHANGED <<s_cachedFrames, workingData, inFlight>>
             /\ last'.events = <<>>]_vars

\* a nested call was dropped while the scan still had a changed entry to treat
C19_Witness ==
  /\ last.op = "onDetectChanges: dropped"
  /\ inFlight.scanning
  /\ inFlight.bodies = 1
  /\ inFlight.pending # <<>>
  /\ Head(inFlight.pending) \in DOMAIN s_cachedFrames
  /\ Changed(Head(inFlight.pending))

\* C20: a page request that returns from .rs.applyTransform does not write
\* its working parameters into an entry that was removed, or replaced by a
\* scan, while the call was in flight.
C20_NoWriteIntoReplacedEntry ==
  [][(/\ last'.op = "getGridData"
      /\ inFlight.transform # NoCall
      /\ inFlight.transform.entry # "same"
      /\ inFlight.transform.key \in DOMAIN s_cachedFrames)
       => s_cachedFrames'[inFlight.transform.key]
            = s_cachedFrames[inFlight.transform.key]]_vars


\* the step is a page request on k whose call of .rs.applyTransform gave a
\* result, which was stored as the working transform of k
TransformedFor(k, l) ==
  /\ IsPageRequest(l) /\ l.key = k
  /\ l.transformCalls = 1 /\ l.engine = "ok"

\* the search, filters and order a page request hands to .rs.applyTransform
ParametersOf(l, raw) ==
  <<l.query.search, RequestFilters(l.query, raw), l.query.ordercol,
    l.query.orderdir>>

\* C21: for every key that has a registry entry and a stored working
\* transform, the entry records the search, filters and order of the
\* Transform call that produced the stored transform: a step that leaves
\* both either is that call, and the entry records its parameters, or finds
\* both and leaves the stored transform and the recorded parameters as
\* they were.
C21_EntryRecordsTheStoredTransform ==
  [][\A k \in Keys :
       (k \in DOMAIN s_cachedFrames' /\ workingData'[k] # NullData)
         => IF TransformedFor(k, last')
            THEN WorkingOf(s_cachedFrames'[k])
                   = ParametersOf(last', findDataFrame(last'.env, ObjName, k))
            ELSE /\ k \in DOMAIN s_cachedFrames
                 /\ workingData'[k] = workingData[k]
                 /\ WorkingOf(s_cachedFrames'[k]) = WorkingOf(s_cachedFrames[k])]_vars


\* what a service that transforms the raw data anew on every request has
\* to serve for the request l
FromScratch(l) ==
  LET raw == findDataFrame(l.env, ObjName, l.key)
  IN  IF Active(l.query, ncol(raw))
      THEN applyTransform(raw, FiltersOf(l.query, ncol(raw)), l.query.search,
                          l.query.ordercol, l.query.orderdir, "ok")
      ELSE raw

\* C22: over an object that does not change, every page answered on a key
\* has the recordsFiltered and the rows of a service that transforms the
\* raw data from scratch, whether the working transform was served as it
\* is, narrowed or not used.
C22_ReuseIsTransparent ==
  (IsPageRequest(last) /\ Succeeded(last))
    => /\ last.response.recordsFiltered = nrow(FromScratch(last))
       /\ last.response.data
            = FormatRows(FromScratch(last), last.page.start + 1,
                         PageLength(last.page.length, nrow(FromScratch(last)),
                                    last.page.start))


\* C23: every page request that is answered with a page reports no more
\* filtered records than records in total, whatever requests, scans and
\* rebindings of the object came before.
C23_FilteredWithinTotal ==
  (IsPageRequest(last) /\ Succeeded(last))
    => last.response.recordsFiltered <= last.response.recordsTotal


\* C24: isFilterSubset is transitive: whenever it holds of a and b and of
\* b and c it holds of a and c, for prefix strings, numeric ranges and
\* mixtures of the two such as a = "2", b = "2-9", c = "3-4".
C24_SubsetIsTransitive ==
  last.op = "isFilterSubset chain" => ((last.ab /\ last.bc) => last.ac)

====
